---- MODULE Spec2Model ----
(***************************************************************************)
(* Model of src/src/types.rs: the two Tokens implementations SliceTokens   *)
(* (a cursor over a borrowed slice of items) and StrTokens (a cursor over  *)
(* a borrowed UTF-8 string), with their checkpoints and views.             *)
(*                                                                         *)
(* A slice is a sequence of items.  A str is the sequence of its bytes;    *)
(* offsets are 0-based as in the source, sequences are 1-based.            *)
(***************************************************************************)
EXTENDS Integers, Sequences, FiniteSets

\* ---- bounds of the model ----
\* longest slice handed to into_tokens
MaxLen == 3
\* longest text (in characters) handed to into_tokens
MaxChars == 3
\* how many next() calls past the end of the input are explored
MaxOver == 2
\* how many checkpoints the caller holds at a time
MaxCps == 2
\* largest offset wrapped by a checkpoint of another cursor
MaxForeign == 5
\* how many results of next() after a save_checkpoint() are kept for comparison
MaxReplay == 3

\* item values of the slices
Items == {10, 20, 30}
\* scalar values of the texts: one per UTF-8 width ('a', e-acute, euro, U+1F600)
Chars == {97, 233, 8364, 128512}

VARIABLES
    kind,       \* "slice": the cursor is a SliceTokens; "str": a StrTokens
    source,     \* what the caller converted: the items, or the text's chars
    slice,      \* SliceTokens.slice
    str,        \* StrTokens.str, as bytes
    cursor,     \* SliceTokens.cursor / StrTokens.cursor
    cps,        \* the checkpoints the caller holds, oldest first
    remAtSave,  \* remaining() at the moment each held checkpoint was saved
    calls,      \* next() calls since into_tokens, while fresh
    fresh,      \* no rewind_to_checkpoint since into_tokens
    last,       \* the last call: its name and the cursor before it
    ret,        \* what the last call returned
    replay      \* the results of next() since the newest checkpoint, and their replay

vars == <<kind, source, slice, str, cursor, cps, remAtSave, calls, fresh, last, ret, replay>>

SeqsUpTo(S, n) == UNION {[1..k -> S] : k \in 0..n}

\* ---- Option, and the outcome of an indexing expression that may panic ----
None == [some |-> FALSE]
Some(v) == [some |-> TRUE, val |-> v]
Panic == [ok |-> FALSE, val |-> <<>>]
Ok(v) == [ok |-> TRUE, val |-> v]

RemoveAt(s, i) == [j \in 1..(Len(s) - 1) |-> IF j < i THEN s[j] ELSE s[j + 1]]

\* ---- UTF-8: the bytes of a valid text ----
Utf8Encode(c) ==
    IF c < 128 THEN <<c>>
    ELSE IF c < 2048 THEN <<192 + (c \div 64), 128 + (c % 64)>>
    ELSE IF c < 65536 THEN
        <<224 + (c \div 4096), 128 + ((c \div 64) % 64), 128 + (c % 64)>>
    ELSE <<240 + (c \div 262144), 128 + ((c \div 4096) % 64),
           128 + ((c \div 64) % 64), 128 + (c % 64)>>

RECURSIVE Utf8Str(_)
Utf8Str(cs) == IF cs = <<>> THEN <<>> ELSE Utf8Encode(Head(cs)) \o Utf8Str(Tail(cs))

\* a boundary test that only knows one-byte characters
is_char_boundary_Ascii(s, index) ==
    IF index = 0 THEN TRUE
    ELSE IF index >= Len(s) THEN index = Len(s)
    ELSE s[index + 1] < 128

\* str::is_char_boundary(index)
is_char_boundary(s, index) ==
    IF index = 0 THEN TRUE
    ELSE IF index >= Len(s) THEN index = Len(s)
    ELSE ~(s[index + 1] \in 128..191)

\* the while loop of StrTokens::next, started at `b`
RECURSIVE next_char_boundary(_, _)
next_char_boundary(s, b) ==
    IF is_char_boundary(s, b) THEN b ELSE next_char_boundary(s, b + 1)

\* str.get_unchecked(from..to)
get_unchecked(s, from, to) == SubSeq(s, from + 1, to)

\* a decoder that takes the first byte for the character
first_char_Byte(b) == b[1]

\* .chars().next().unwrap(): decode the first scalar value of the bytes
first_char(b) ==
    IF b[1] < 128 THEN b[1]
    ELSE IF b[1] < 224 THEN (b[1] - 192) * 64 + (b[2] - 128)
    ELSE IF b[1] < 240 THEN
        (b[1] - 224) * 4096 + (b[2] - 128) * 64 + (b[3] - 128)
    ELSE (b[1] - 240) * 262144 + (b[2] - 128) * 4096
         + (b[3] - 128) * 64 + (b[4] - 128)

\* ---- SliceTokens ----
SliceConsumed(s, c) == IF c <= Len(s) THEN Ok(SubSeq(s, 1, c)) ELSE Panic

SliceRemaining(s, c) == IF c <= Len(s) THEN Ok(SubSeq(s, c + 1, Len(s))) ELSE Panic

\* a conversion that hands back the unparsed remainder only
SliceFrom_Remaining(s, c) == SubSeq(s, c + 1, Len(s))

SliceFrom(s, c) == s

\* a get that is one item off
SliceGet_OffByOne(s, index) ==
    IF index + 1 < Len(s) THEN Some([idx |-> index, item |-> s[index + 2]]) ELSE None

\* slice.get(index): a reference to the item at index, or None
SliceGet(s, index) ==
    IF index < Len(s) THEN Some([idx |-> index, item |-> s[index + 1]]) ELSE None

SliceNextCursor(s, c) == c + 1

\* a checkpoint of the position after the current item
SliceSaveCheckpoint_Ahead(s, c) == c + 1

SliceSaveCheckpoint(s, c) == c

\* a rewind to the position after the checkpoint
SliceRewindCursor_OffByOne(c, checkpoint) == checkpoint + 1

\* a rewind that only ever moves the position back
SliceRewindCursor_BackOnly(c, checkpoint) == IF checkpoint <= c THEN checkpoint ELSE c

\* a rewind that ignores its checkpoint
SliceRewindCursor_Ignore(c, checkpoint) == c

SliceRewindCursor(c, checkpoint) == checkpoint

SliceIntoTokens(s) == [slice |-> s, cursor |-> 0]

\* a conversion of a cursor that starts over
SliceTokensIntoTokens_Restart(s, c) == [slice |-> s, cursor |-> 0]

\* IntoTokens for SliceTokens: the cursor itself
SliceTokensIntoTokens(s, c) == [slice |-> s, cursor |-> c]

\* ---- StrTokens ----
StrConsumed(s, c) ==
    IF c <= Len(s) /\ is_char_boundary(s, c) THEN Ok(SubSeq(s, 1, c)) ELSE Panic

StrRemaining(s, c) ==
    IF c <= Len(s) /\ is_char_boundary(s, c) THEN Ok(SubSeq(s, c + 1, Len(s))) ELSE Panic

StrFrom(s, c) == s

\* a next() that does not advance
StrNextCursor_Stuck(s, c) == c

\* a next() that steps one byte
StrNextCursor_ByteStep(s, c) == IF c = Len(s) THEN c ELSE c + 1

\* a next() that advances at the end of the text too
StrNextCursor_AlwaysAdvance(s, c) ==
    IF c = Len(s) THEN c + 1 ELSE next_char_boundary(s, c + 1)

StrNextCursor(s, c) == IF c = Len(s) THEN c ELSE next_char_boundary(s, c + 1)

StrNextResult(s, c) ==
    IF c = Len(s) THEN None
    ELSE Some(first_char(get_unchecked(s, c, next_char_boundary(s, c + 1))))

StrSaveCheckpoint(s, c) == c

\* a rewind that ignores its checkpoint
StrRewindCursor_Ignore(c, checkpoint) == c

StrRewindCursor(c, checkpoint) == checkpoint

StrIntoTokens(s) == [str |-> s, cursor |-> 0]

\* IntoTokens for StrTokens: the cursor itself
StrTokensIntoTokens(s, c) == [str |-> s, cursor |-> c]

\* ---- the views of the cursor the caller holds ----
Consumed == IF kind = "slice" THEN SliceConsumed(slice, cursor) ELSE StrConsumed(str, cursor)

Remaining == IF kind = "slice" THEN SliceRemaining(slice, cursor) ELSE StrRemaining(str, cursor)

\* the buffer the caller handed to into_tokens
Buffer == IF kind = "slice" THEN source ELSE Utf8Str(source)

\* cursor converted back: From<SliceTokens> for &[Item], From<StrTokens> for &str
FromTokens == IF kind = "slice" THEN SliceFrom(slice, cursor) ELSE StrFrom(str, cursor)

\* The caller's record of a backtrack: the results of the next() calls that
\* follow the save of the newest checkpoint (phase "record"), and after a
\* rewind to that checkpoint how many of them have been asked for again
\* (phase "replay").
NoReplay == [phase |-> "idle", log |-> <<>>, pos |-> 0]

ReplayAfterSave == [phase |-> "record", log |-> <<>>, pos |-> 0]

ReplayAfterNext(r) ==
    IF replay.phase = "record" THEN
        IF Len(replay.log) < MaxReplay
            THEN [replay EXCEPT !.log = Append(@, r)] ELSE NoReplay
    ELSE IF replay.phase = "replay" THEN
        IF replay.pos < Len(replay.log)
            THEN [replay EXCEPT !.pos = @ + 1] ELSE NoReplay
    ELSE NoReplay

ReplayAfterRewind(i) ==
    IF replay.phase = "record" /\ i = Len(cps)
        THEN [replay EXCEPT !.phase = "replay"] ELSE NoReplay

\* ---- the state after into_tokens ----
InitSlice ==
    \E s \in SeqsUpTo(Items, MaxLen) :
        /\ kind = "slice"
        /\ source = s
        /\ slice = SliceIntoTokens(s).slice
        /\ cursor = SliceIntoTokens(s).cursor
        /\ str = <<>>

InitStr ==
    \E cs \in SeqsUpTo(Chars, MaxChars) :
        /\ kind = "str"
        /\ source = cs
        /\ str = StrIntoTokens(Utf8Str(cs)).str
        /\ cursor = StrIntoTokens(Utf8Str(cs)).cursor
        /\ slice = <<>>

Init ==
    /\ InitSlice \/ InitStr
    /\ cps = <<>>
    /\ remAtSave = <<>>
    /\ calls = 0
    /\ fresh = TRUE
    /\ last = [op |-> "into_tokens", from |-> 0]
    /\ ret = None
    /\ replay = NoReplay

\* ---- the calls ----
CountCall ==
    /\ calls' = IF fresh THEN calls + 1 ELSE calls
    /\ UNCHANGED fresh

SliceNext ==
    /\ kind = "slice"
    /\ cursor < Len(slice) + MaxOver
    /\ ret' = SliceGet(slice, cursor)
    /\ cursor' = SliceNextCursor(slice, cursor)
    /\ last' = [op |-> "next", from |-> cursor]
    /\ CountCall
    /\ UNCHANGED <<kind, source, slice, str, cps, remAtSave>>
    /\ replay' = ReplayAfterNext(SliceGet(slice, cursor))

StrNext ==
    /\ kind = "str"
    /\ fresh => calls < Len(source) + MaxOver
    /\ ret' = StrNextResult(str, cursor)
    /\ cursor' = StrNextCursor(str, cursor)
    /\ last' = [op |-> "next", from |-> cursor]
    /\ CountCall
    /\ UNCHANGED <<kind, source, slice, str, cps, remAtSave>>
    /\ replay' = ReplayAfterNext(StrNextResult(str, cursor))

SliceSave ==
    /\ kind = "slice"
    /\ Len(cps) < MaxCps
    /\ cps' = Append(cps, SliceSaveCheckpoint(slice, cursor))
    /\ remAtSave' = Append(remAtSave, Remaining)
    /\ ret' = [cp |-> SliceSaveCheckpoint(slice, cursor)]
    /\ last' = [op |-> "save_checkpoint", from |-> cursor]
    /\ UNCHANGED <<kind, source, slice, str, cursor, calls, fresh>>
    /\ replay' = ReplayAfterSave

StrSave ==
    /\ kind = "str"
    /\ Len(cps) < MaxCps
    /\ cps' = Append(cps, StrSaveCheckpoint(str, cursor))
    /\ remAtSave' = Append(remAtSave, Remaining)
    /\ ret' = [cp |-> StrSaveCheckpoint(str, cursor)]
    /\ last' = [op |-> "save_checkpoint", from |-> cursor]
    /\ UNCHANGED <<kind, source, slice, str, cursor, calls, fresh>>
    /\ replay' = ReplayAfterSave

\* the checkpoint is moved into the call: the caller no longer holds it
SliceRewind(i) ==
    /\ kind = "slice"
    /\ cursor' = SliceRewindCursor(cursor, cps[i])
    /\ cps' = RemoveAt(cps, i)
    /\ remAtSave' = RemoveAt(remAtSave, i)
    /\ ret' = [unit |-> TRUE]
    /\ last' = [op |-> "rewind_to_checkpoint", from |-> cursor, rem |-> remAtSave[i]]
    /\ fresh' = FALSE
    /\ calls' = 0
    /\ UNCHANGED <<kind, source, slice, str>>
    /\ replay' = ReplayAfterRewind(i)

StrRewind(i) ==
    /\ kind = "str"
    /\ cursor' = StrRewindCursor(cursor, cps[i])
    /\ cps' = RemoveAt(cps, i)
    /\ remAtSave' = RemoveAt(remAtSave, i)
    /\ ret' = [unit |-> TRUE]
    /\ last' = [op |-> "rewind_to_checkpoint", from |-> cursor, rem |-> remAtSave[i]]
    /\ fresh' = FALSE
    /\ calls' = 0
    /\ UNCHANGED <<kind, source, slice, str>>
    /\ replay' = ReplayAfterRewind(i)

\* into_tokens() on the cursor itself
SliceIntoTokensAgain ==
    /\ kind = "slice"
    /\ slice' = SliceTokensIntoTokens(slice, cursor).slice
    /\ cursor' = SliceTokensIntoTokens(slice, cursor).cursor
    /\ ret' = [tokens |-> TRUE]
    /\ last' = [op |-> "into_tokens_again", from |-> cursor]
    /\ UNCHANGED <<kind, source, str, cps, remAtSave, calls, fresh>>
    /\ UNCHANGED replay

StrIntoTokensAgain ==
    /\ kind = "str"
    /\ str' = StrTokensIntoTokens(str, cursor).str
    /\ cursor' = StrTokensIntoTokens(str, cursor).cursor
    /\ ret' = [tokens |-> TRUE]
    /\ last' = [op |-> "into_tokens_again", from |-> cursor]
    /\ UNCHANGED <<kind, source, slice, cps, remAtSave, calls, fresh>>
    /\ UNCHANGED replay

Next ==
    \/ SliceNext
    \/ StrNext
    \/ SliceSave
    \/ StrSave
    \/ \E i \in 1..Len(cps) : SliceRewind(i)
    \/ \E i \in 1..Len(cps) : StrRewind(i)
    \/ SliceIntoTokensAgain
    \/ StrIntoTokensAgain

Spec == Init /\ [][Next]_vars

\* a caller that only calls next(), and keeps calling it
NextOnly ==
    \/ SliceNext
    \/ StrNext

NextOnlySpec == Init /\ [][NextOnly]_vars /\ WF_vars(NextOnly)

\* ---- checkpoints of another cursor of the same type ----
\* "Cursor should always start at a valid char boundary"
StrDefined == cursor <= Len(str) /\ is_char_boundary(str, cursor)

SliceRewindForeign(cp) ==
    /\ kind = "slice"
    /\ cursor' = SliceRewindCursor(cursor, cp)
    /\ ret' = [unit |-> TRUE]
    /\ last' = [op |-> "rewind_foreign", from |-> cursor, cp |-> cp]
    /\ fresh' = FALSE
    /\ calls' = 0
    /\ UNCHANGED <<kind, source, slice, str, cps, remAtSave>>
    /\ replay' = NoReplay

StrRewindForeign(cp) ==
    /\ kind = "str"
    /\ cursor' = StrRewindCursor(cursor, cp)
    /\ ret' = [unit |-> TRUE]
    /\ last' = [op |-> "rewind_foreign", from |-> cursor, cp |-> cp]
    /\ fresh' = FALSE
    /\ calls' = 0
    /\ UNCHANGED <<kind, source, slice, str, cps, remAtSave>>
    /\ replay' = NoReplay

\* StrTokens::next() off a boundary or past the end: get_unchecked is
\* called outside its contract (past the end the scan finds no boundary
\* and the index overflows first), so the call may panic, or return any
\* result and leave any offset
StrNextUndefined ==
    /\ kind = "str"
    /\ ~StrDefined
    /\ \/ ret' = Panic /\ UNCHANGED cursor
       \/ ret' = None /\ cursor' \in 0..MaxForeign
       \/ \E ch \in Chars : ret' = Some(ch) /\ cursor' \in 0..MaxForeign
    /\ last' = [op |-> "next_undefined", from |-> cursor]
    /\ fresh' = FALSE
    /\ calls' = 0
    /\ UNCHANGED <<kind, source, slice, str, cps, remAtSave>>
    /\ replay' = NoReplay

\* the caller of this specification holds one checkpoint of this cursor at
\* most, next to the checkpoints of the other cursor
MisuseNext ==
    \/ SliceNext
    \/ StrDefined /\ StrNext
    \/ StrNextUndefined
    \/ cps = <<>> /\ SliceSave
    \/ cps = <<>> /\ StrSave
    \/ \E i \in 1..Len(cps) : SliceRewind(i)
    \/ \E i \in 1..Len(cps) : StrRewind(i)
    \/ \E cp \in 0..MaxForeign : SliceRewindForeign(cp)
    \/ \E cp \in 0..MaxForeign : StrRewindForeign(cp)
    \/ SliceIntoTokensAgain
    \/ StrIntoTokensAgain

MisuseSpec == Init /\ [][MisuseNext]_vars

TypeOK ==
    /\ kind \in {"slice", "str"}
    /\ cursor \in Nat
    /\ Len(cps) <= MaxCps
    /\ Len(remAtSave) = Len(cps)
\* ---- what the caller put in, independently of the cursor ----
Min(a, b) == IF a < b THEN a ELSE b

\* byte offset of the end of the k-th character of the text
OffsetOfChar(k) == Len(Utf8Str(SubSeq(source, 1, k)))

\* the byte offsets at which a character of the text starts or the text ends
CharBoundaries == {OffsetOfChar(k) : k \in 0..Len(source)}

\* C1: SliceTokens, once the position equals the length of the slice, a
\* call to next() returns None and leaves the position where it was.
C1_SliceExhaustionKeepsPosition ==
    (kind = "slice" /\ last.op = "next" /\ last.from >= Len(slice))
        => (~ret.some /\ cursor = last.from)

\* C2: SliceTokens, in every state reached by next(), save_checkpoint() and
\* rewind_to_checkpoint() with own checkpoints, 0 <= position <= length.
C2_SlicePositionInRange ==
    kind = "slice" => (0 <= cursor /\ cursor <= Len(slice))

\* C3: for both cursors, in every reachable state consumed() and remaining()
\* do not fail, consumed() is the source up to the position, remaining() is
\* the source from the position, and their concatenation is the source.
C3_ConsumedRemainingRoundTrip ==
    /\ Consumed.ok
    /\ Remaining.ok
    /\ Consumed.val \o Remaining.val = Buffer
    /\ Consumed.val = SubSeq(Buffer, 1, cursor)
    /\ Remaining.val = SubSeq(Buffer, cursor + 1, Len(Buffer))

\* C4: for both cursors, after rewind_to_checkpoint(cp) remaining() is what
\* remaining() was when cp was saved, however many next() calls came between.
C4_RewindRestoresRemaining ==
    last.op = "rewind_to_checkpoint" => Remaining = last.rem

\* a rewind of a SliceTokens that had been driven past the end of its slice,
\* back to a checkpoint with items left
C4_Witness ==
    /\ kind = "slice"
    /\ last.op = "rewind_to_checkpoint"
    /\ last.from > Len(slice)
    /\ Remaining.ok
    /\ Remaining.val # <<>>

\* C5: StrTokens, in every state reached by next(), save_checkpoint() and
\* rewind_to_checkpoint() with own checkpoints, the byte offset is within
\* 0..=byte length and on a character boundary, so that consumed() and
\* remaining() are valid sub-strings.
C5_StrPositionOnBoundary ==
    kind = "str" =>
        /\ 0 <= cursor /\ cursor <= Len(str)
        /\ cursor \in CharBoundaries
        /\ Consumed.ok
        /\ Remaining.ok

\* a StrTokens rewound to an offset right after a multi-byte character
C5_Witness ==
    /\ kind = "str"
    /\ last.op = "rewind_to_checkpoint"
    /\ cursor > 1
    /\ cursor < Len(str)
    /\ str[cursor] \in 128..191

\* C6: StrTokens, once the byte offset equals the byte length, a call to
\* next() returns None and leaves the byte offset where it was.
C6_StrExhaustionKeepsPosition ==
    (kind = "str" /\ last.op = "next" /\ last.from >= Len(str))
        => (~ret.some /\ cursor = last.from /\ cursor = Len(str))

\* the second next() past the end of a non-empty text
C6_Witness ==
    /\ kind = "str"
    /\ last.op = "next"
    /\ last.from = Len(str)
    /\ Len(str) > 1
    /\ fresh
    /\ calls = Len(source) + 2
    /\ ~ret.some

\* C7: on an empty slice or the empty string the first next() returns None,
\* and consumed() is empty and remaining() is the empty input both before
\* and after that call.
C7_EmptyInput ==
    (Buffer = <<>> /\ fresh /\ calls <= 1) =>
        /\ (last.op = "next" => ~ret.some)
        /\ Consumed = Ok(<<>>)
        /\ Remaining = Ok(Buffer)

\* C8: SliceTokens fresh over S of length n: the k-th next() returns a
\* reference to S[k-1] for k <= n and None for k = n+1, and after k <= n
\* calls consumed() is S[0..k) and remaining() is S[k..n).
C8_SliceSequentialProduction ==
    (kind = "slice" /\ fresh) =>
        /\ (last.op = "next" /\ calls <= Len(source))
            => ret = Some([idx |-> calls - 1, item |-> source[calls]])
        /\ (last.op = "next" /\ calls = Len(source) + 1) => ~ret.some
        /\ calls <= Len(source) =>
            /\ Consumed = Ok(SubSeq(source, 1, calls))
            /\ Remaining = Ok(SubSeq(source, calls + 1, Len(source)))

\* [10, 20, 30] after two calls of next()
C8_Witness ==
    /\ kind = "slice"
    /\ fresh
    /\ source = <<10, 20, 30>>
    /\ last.op = "next"
    /\ calls = 2
    /\ ret = Some([idx |-> 1, item |-> 20])
    /\ Consumed = Ok(<<10, 20>>)
    /\ Remaining = Ok(<<30>>)

\* C9: StrTokens fresh over the text of c1..cm: the k-th next() returns ck
\* for k <= m and None after that, the byte offset after k calls is the sum
\* of the UTF-8 lengths of c1..ck, and remaining() is the text without its
\* first k characters.
C9_StrSequentialProduction ==
    (kind = "str" /\ fresh) =>
        /\ (last.op = "next" /\ calls <= Len(source)) => ret = Some(source[calls])
        /\ (last.op = "next" /\ calls > Len(source)) => ~ret.some
        /\ cursor = OffsetOfChar(Min(calls, Len(source)))
        /\ calls <= Len(source) =>
            Remaining = Ok(Utf8Str(SubSeq(source, calls + 1, Len(source))))

\* a 1-byte, 4-byte, 1-byte text after its second next(): offset 5
C9_Witness ==
    /\ kind = "str"
    /\ fresh
    /\ source = <<97, 128512, 97>>
    /\ last.op = "next"
    /\ last.from = 1
    /\ calls = 2
    /\ cursor = 5
    /\ ret = Some(128512)
    /\ Remaining = Ok(<<97>>)

\* C10: for both cursors, converting the cursor back to its source yields
\* the whole source as it was handed to into_tokens, after any calls.
C10_FromYieldsWholeSource ==
    FromTokens = Buffer

\* a cursor that has consumed part of its input and has been rewound since
C10_Witness ==
    /\ last.op = "rewind_to_checkpoint"
    /\ last.from > 0
    /\ cursor > 0
    /\ cursor < Len(Buffer)
    /\ FromTokens = Buffer
\* C11: into_tokens() on a slice or a &str yields a cursor at position 0,
\* with consumed() empty and remaining() the whole source; into_tokens() on
\* a cursor yields that cursor, buffer and position as they were.
C11_IntoTokens ==
    /\ last.op = "into_tokens" =>
        /\ cursor = 0
        /\ FromTokens = Buffer
        /\ Consumed = Ok(<<>>)
        /\ Remaining = Ok(Buffer)
    /\ last.op = "into_tokens_again" =>
        /\ cursor = last.from
        /\ FromTokens = Buffer

\* a SliceTokens with items consumed and items left, converted again
C11_Witness ==
    /\ kind = "slice"
    /\ last.op = "into_tokens_again"
    /\ last.from > 0
    /\ cursor = last.from
    /\ cursor < Len(slice)

\* C12: save_checkpoint() leaves the position and the buffer as they were
\* and returns a checkpoint of the position at the call, so that rewinding
\* to it at once leaves the cursor where it is.
C12_SaveCheckpointIsPure ==
    last.op = "save_checkpoint" =>
        /\ cursor = last.from
        /\ FromTokens = Buffer
        /\ ret.cp = last.from
        /\ cps[Len(cps)] = ret.cp
        /\ IF kind = "slice" THEN SliceRewindCursor(cursor, ret.cp) = cursor
                             ELSE StrRewindCursor(cursor, ret.cp) = cursor

\* a checkpoint saved in the middle of the input
C12_Witness ==
    /\ last.op = "save_checkpoint"
    /\ cursor > 0
    /\ cursor < Len(Buffer)
    /\ ret.cp = cursor
\* C13: StrTokens::next() called at a character boundary p < byte length:
\* the new offset is the smallest character boundary greater than p, lies
\* in p+1..p+4 and within the text, and the character returned is the one
\* that the bytes [p, new offset) encode.
C13_StrSingleStep ==
    (kind = "str" /\ last.op = "next" /\ last.from < Len(str)
        /\ last.from \in CharBoundaries) =>
        /\ ret.some
        /\ cursor \in CharBoundaries
        /\ cursor > last.from
        /\ \A b \in CharBoundaries : b > last.from => cursor <= b
        /\ cursor - last.from \in 1..4
        /\ cursor <= Len(str)
        /\ Utf8Encode(ret.val) = SubSeq(str, last.from + 1, cursor)

\* a step over a three-byte character in the middle of a text
C13_Witness ==
    /\ kind = "str"
    /\ last.op = "next"
    /\ last.from > 0
    /\ cursor = last.from + 3
    /\ cursor < Len(str)
    /\ ret = Some(8364)
\* C14: from a fresh cursor, calling only next(): the first n calls (n items
\* of the slice, or n characters of the text) return Some, every call after
\* them returns None, and the first None is eventually returned.
C14_FiniteProduction ==
    /\ []((last.op = "next" /\ calls <= Len(source)) => ret.some)
    /\ []((last.op = "next" /\ calls > Len(source)) => ~ret.some)
    /\ <>(last.op = "next" /\ calls = Len(source) + 1 /\ ~ret.some)

\* the first None of a text of three characters, at its fourth next()
C14_Witness ==
    /\ kind = "str"
    /\ Len(source) = 3
    /\ last.op = "next"
    /\ calls = 4
    /\ cursor = Len(str)
    /\ ~ret.some
\* C15: rewind_to_checkpoint(cp) with a checkpoint of another cursor of the
\* same type signals nothing and sets the position to the offset cp wraps,
\* whatever the buffer of this cursor is.
C15_ForeignRewindUnchecked ==
    last.op = "rewind_foreign" => (cursor = last.cp /\ ret = [unit |-> TRUE])

\* a StrTokens left inside a multi-byte character by a foreign checkpoint
C15_Witness ==
    /\ kind = "str"
    /\ last.op = "rewind_foreign"
    /\ cursor = last.cp
    /\ cursor < Len(str)
    /\ str[cursor + 1] \in 128..191
    /\ ~Remaining.ok

\* a SliceTokens left past the end of its slice by a foreign checkpoint
C15_SlicePastEnd ==
    /\ kind = "slice"
    /\ last.op = "rewind_foreign"
    /\ last.from <= Len(slice)
    /\ cursor = last.cp
    /\ cursor > Len(slice)

\* a StrTokens left past the end of its text by a foreign checkpoint
C15_StrPastEnd ==
    /\ kind = "str"
    /\ last.op = "rewind_foreign"
    /\ cursor = last.cp
    /\ cursor > Len(str)
\* C16: rewind_to_checkpoint(cp) sets the position to the offset cp wraps,
\* be it before or after the current position: a checkpoint saved at p2 and
\* then rewound past moves the position forward to exactly p2.
C16_RewindSetsPosition ==
    [][\A i \in 1..Len(cps) :
          (SliceRewind(i) \/ StrRewind(i)) => cursor' = cps[i]]_vars

\* a rewind that moved the position forward: its checkpoint had been
\* rewound past
C16_Witness ==
    /\ last.op = "rewind_to_checkpoint"
    /\ cursor > last.from
    /\ Remaining.ok
\* C17: after save_checkpoint(), j calls of next() and a rewind to that
\* checkpoint, the next j calls of next() return what those j calls
\* returned, item for item and None for None.
C17_ReplayAfterRewind ==
    (replay.phase = "replay" /\ replay.pos >= 1 /\ last.op = "next")
        => ret = replay.log[replay.pos]

\* the third result of a replay that runs from the last item into None
C17_Witness ==
    /\ replay.phase = "replay"
    /\ last.op = "next"
    /\ replay.pos = 3
    /\ replay.log[1].some
    /\ ~replay.log[2].some
    /\ ~ret.some
====
